---------------------------- MODULE Spec2Model ----------------------------
(***************************************************************************)
(* Position tracking and valuation engine of my-asset-app.                 *)
(*                                                                         *)
(*   src/logic.py   calculate_detailed_metrics  (the Holdings Builder)     *)
(*   src/app_V7.py  lines 748-779               (the Valuation Normalizer) *)
(*   src/utils.py   get_market_data             (prices and FX rate)       *)
(*                                                                         *)
(* One run of the Streamlit script is one valuation cycle.  The model      *)
(* follows the script: the market data is fetched, the ledger is sorted,   *)
(* the rows are processed one per step, the holdings are emitted and       *)
(* valued, and the totals are formed.                                      *)
(*                                                                         *)
(* Column names of the data frames are written in ASCII:                   *)
(*   ticker = the code column, cat = the asset class column,               *)
(*   type = the action column, qty = quantity, price = unit price,         *)
(*   date = trade date; "BUY"/"SELL" are the two action literals of the    *)
(*   trade form, "TW" is the domestic equity class literal compared at     *)
(*   logic.py:83 and app_V7.py:771, "US" and "CRYPTO" the other two.       *)
(*                                                                         *)
(* Numbers are exact rationals <<n, d>> with d > 0 in lowest terms: the    *)
(* code's float64 arithmetic is modelled without rounding.                 *)
(***************************************************************************)
EXTENDS Integers, Sequences, FiniteSets

(***************************************************************************)
(* Rational arithmetic.                                                    *)
(***************************************************************************)
Abs(n) == IF n < 0 THEN -n ELSE n

RECURSIVE Gcd(_, _)
Gcd(a, b) == IF b = 0 THEN a ELSE Gcd(b, a % b)

Norm(n, d) ==
    LET g == Gcd(Abs(n), d)
    IN  <<n \div g, d \div g>>

Zero == <<0, 1>>
One == <<1, 1>>
Hundred == <<100, 1>>

RAdd(x, y) ==
    LET g == Gcd(x[2], y[2])
    IN  Norm(x[1] * (y[2] \div g) + y[1] * (x[2] \div g), (x[2] \div g) * y[2])

RNeg(x) == <<-x[1], x[2]>>

RSub(x, y) == RAdd(x, RNeg(y))

RMul(x, y) ==
    LET g1 == Gcd(Abs(x[1]), y[2])
        g2 == Gcd(Abs(y[1]), x[2])
    IN  <<(x[1] \div g1) * (y[1] \div g2), (x[2] \div g2) * (y[2] \div g1)>>

\* x / y for y # 0
RDiv(x, y) ==
    IF y[1] > 0 THEN RMul(x, <<y[2], y[1]>>) ELSE RMul(x, <<-y[2], -y[1]>>)

RGt(x, y) == x[1] * y[2] > y[1] * x[2]

RECURSIVE RSum(_)
RSum(s) == IF s = <<>> THEN Zero ELSE RAdd(s[1], RSum(Tail(s)))

(***************************************************************************)
(* Program constants.                                                      *)
(***************************************************************************)
\* logic.py:88  the "still held" threshold 0.0001
Epsilon == <<1, 10000>>

\* utils.py:93, utils.py:105, app_V7.py:748  the fallback FX rate 32.5
FallbackRate == <<65, 2>>

(***************************************************************************)
(* Inputs.                                                                 *)
(***************************************************************************)
MaxRows == 3

Trade(t, c, ty, q, p, d) ==
    [ticker |-> t, cat |-> c, type |-> ty, qty |-> q, price |-> p, date |-> d]

\* The trades a ledger is drawn from.  The trade form (app_V7.py:827-833)
\* accepts any quantity > 0 with four decimals and any price >= 0, and does
\* not compare a sell with the position held.
TradePool ==
    { Trade("2330", "TW", "BUY",  <<1, 1>>, <<10, 1>>, 1),
      Trade("2330", "TW", "BUY",  <<2, 1>>, <<20, 1>>, 2),
      Trade("2330", "TW", "SELL", <<1, 1>>, <<20, 1>>, 2),
      Trade("2330", "TW", "SELL", <<2, 1>>, <<10, 1>>, 1),
      Trade("AAPL", "US", "BUY",  <<1, 1>>, <<0, 1>>,  1),
      Trade("AAPL", "US", "BUY",  <<2, 1>>, <<10, 1>>, 2),
      Trade("AAPL", "US", "SELL", <<1, 1>>, <<20, 1>>, 2),
      Trade("BTC", "CRYPTO", "BUY", <<1, 10000>>, <<20, 1>>, 1) }

\* The session's ledger: up to MaxRows trades in any order (the Holdings
\* Builder takes its input unordered and sorts it itself).  Two equal
\* entries are two trades with the same figures; their ids differ, so
\* clean_df (logic.py:13) keeps both.
Ledgers == UNION { [1..n -> TradePool] : n \in 0..MaxRows }

\* What the market-data download can deliver: the FX rate and, per ticker,
\* a latest price or none.
LiveRate == <<32, 1>>
LivePrice == <<50, 1>>

VARIABLES
    pc,                 \* position in the script
    transactions,       \* st.session_state.transactions
    prices,             \* ticker -> price, as returned by get_market_data
    current_ex_rate,    \* app_V7.py:748
    temp_df,            \* calculate_detailed_metrics: the sorted ledger
    idx,                \* calculate_detailed_metrics: the row the loop is at
    tracker,            \* calculate_detailed_metrics: ticker -> qty, cost_basis
    tracker_keys,       \* insertion order of the keys of tracker
    row_pnls_orig,      \* calculate_detailed_metrics: per-row native P&L
    realized_pnl_twd,   \* calculate_detailed_metrics: the accumulator
    holdings_df,        \* app_V7.py:749
    realized_all,       \* app_V7.py:750
    detailed_tx_global, \* app_V7.py:749
    total_market_val,   \* app_V7.py:748
    total_holding_cost, \* app_V7.py:748
    total_pnl,          \* app_V7.py:750
    md_tickers,         \* get_market_data: the argument tickers
    md_download,        \* get_market_data: what yf.download delivered
    snapshots,          \* the rows of table portfolio_snapshots
    user_id,            \* st.session_state.user_id
    today,              \* pd.Timestamp.now().date()
    snap_result,        \* save_daily_snapshot: how the last call ended
    last_ok,            \* history: (user, day) -> data of the last stored call
    raw_row,            \* _sync_transactions: the edited row at hand
    db,                 \* the rows of table transactions
    sync_result,        \* _sync_transactions: what became of the row
    sort_fn,            \* the build's sort_values, where it has been used
    run,                \* which run of the script this is
    first_run,          \* history: inputs and results of the first run
    total_liquidity,    \* app_V7.py:782
    total_liabilities,  \* app_V7.py:783
    net_assets,         \* app_V7.py:784
    snap_calls          \* calls of save_daily_snapshot in this cycle

vars == <<pc, transactions, prices, current_ex_rate, temp_df, idx, tracker,
          tracker_keys, row_pnls_orig, realized_pnl_twd, holdings_df,
          realized_all, detailed_tx_global, total_market_val,
          total_holding_cost, total_pnl, md_tickers, md_download,
          snapshots, user_id, today, snap_result, last_ok,
          raw_row, db, sync_result, sort_fn, run, first_run,
          total_liquidity, total_liabilities, net_assets, snap_calls>>

calcVars == <<temp_df, idx, tracker, tracker_keys, row_pnls_orig, realized_pnl_twd>>
outVars == <<holdings_df, realized_all, detailed_tx_global>>
totalVars == <<total_market_val, total_holding_cost, total_pnl>>
marketVars == <<prices, current_ex_rate>>
callVars == <<md_tickers, md_download>>
snapVars == <<snapshots, user_id, today, snap_result, last_ok>>
syncVars == <<raw_row, db, sync_result>>
rerunVars == <<run, first_run>>
cycleVars == <<total_liquidity, total_liabilities, net_assets, snap_calls>>
auxVars == <<callVars, snapVars, syncVars, sort_fn, rerunVars, cycleVars>>
coreVars == <<transactions, marketVars, calcVars, outVars, totalVars>>

\* app_V7.py:733  the columns of the ledger
LedgerColumns == {"id", "user_id", "type", "cat", "ticker", "qty", "price", "date"}

\* logic.py:67, logic.py:93  the column of the per-row native P&L
PnlColumn == "row_pnl"

\* A data frame whose rows are looked at as a whole: its columns, its rows.
Frame(columns, rows) == [columns |-> columns, rows |-> rows]

\* pd.DataFrame() at app_V7.py:749
NoFrame == Frame({}, <<>>)

\* The ledgers calculate_detailed_metrics is called with directly: they
\* include the empty ledger, tickers whose rows carry different classes and
\* a row whose action is neither of the two literals ("OTHER": any other
\* text of the editor's action column).
ActionTypes == {"BUY", "SELL", "OTHER"}

FnPool ==
    { Trade("AAPL", "US", "BUY",  <<1, 1>>, <<10, 1>>, 1),
      Trade("AAPL", "TW", "BUY",  <<2, 1>>, <<20, 1>>, 2),
      Trade("AAPL", "CRYPTO", "SELL", <<1, 1>>, <<20, 1>>, 1),
      Trade("2330", "TW", "BUY",  <<1, 1>>, <<10, 1>>, 2),
      Trade("2330", "US", "BUY",  <<1, 1>>, <<20, 1>>, 1),
      Trade("2330", "TW", "SELL", <<1, 1>>, <<20, 1>>, 2),
      Trade("2330", "TW", "OTHER", <<1, 1>>, <<30, 1>>, 2) }

FnLedgers == UNION { [1..n -> FnPool] : n \in 0..MaxRows }

\* The script's variables before any assignment of the cycle.
CoreIdle ==
    /\ transactions = <<>>
    /\ prices = <<>>
    /\ current_ex_rate = FallbackRate
    /\ temp_df = <<>>
    /\ idx = 0
    /\ tracker = <<>>
    /\ tracker_keys = <<>>
    /\ row_pnls_orig = <<>>
    /\ realized_pnl_twd = Zero
    /\ holdings_df = <<>>
    /\ realized_all = Zero
    /\ detailed_tx_global = NoFrame
    /\ total_market_val = Zero
    /\ total_holding_cost = Zero
    /\ total_pnl = Zero

\* No direct call of get_market_data is under way.
NoDownload == [state |-> "none", columns |-> <<>>]
CallIdle == md_tickers = {} /\ md_download = NoDownload

\* The snapshot store is not looked at: no row, the first user and day.
SnapIdle ==
    /\ snapshots = <<>>
    /\ user_id = "u1"
    /\ today = 1
    /\ snap_result = "none"
    /\ last_ok = <<>>

\* No row of the transactions editor is being saved.
SyncIdle ==
    /\ raw_row = <<>>
    /\ db = <<>>
    /\ sync_result = "none"

\* The results of a run, as kept for the comparison with a later run.
Results(p, r, h, ra, d, tm, tc, tp) ==
    [prices |-> p, current_ex_rate |-> r, holdings_df |-> h,
     realized_all |-> ra, detailed_tx_global |-> d, total_market_val |-> tm,
     total_holding_cost |-> tc, total_pnl |-> tp]

NoResults == Results(<<>>, FallbackRate, <<>>, Zero, NoFrame, Zero, Zero, Zero)

\* The first run of the script; the sort has not been used.
RerunIdle ==
    /\ sort_fn = <<>>
    /\ run = "first"
    /\ first_run = NoResults

\* Block B of the script has not been reached.
CycleIdle ==
    /\ total_liquidity = Zero
    /\ total_liabilities = Zero
    /\ net_assets = Zero
    /\ snap_calls = 0

AuxIdle == CallIdle /\ SnapIdle /\ SyncIdle /\ RerunIdle /\ CycleIdle

\* Init with the values of the tuple assignment at app_V7.py:748 in another
\* order: 32.5, 0, 0.
InitTupleSlip ==
    /\ pc = "A"
    /\ transactions \in Ledgers
    /\ prices = <<>>
    /\ current_ex_rate = Zero
    /\ temp_df = <<>>
    /\ idx = 0
    /\ tracker = <<>>
    /\ tracker_keys = <<>>
    /\ row_pnls_orig = <<>>
    /\ realized_pnl_twd = Zero
    /\ holdings_df = <<>>
    /\ realized_all = Zero
    /\ detailed_tx_global = NoFrame
    /\ total_market_val = FallbackRate
    /\ total_holding_cost = Zero
    /\ total_pnl = Zero
    /\ AuxIdle

\* app_V7.py:748-750 and the session's ledger
Init ==
    /\ pc = "A"
    /\ transactions \in Ledgers
    /\ prices = <<>>
    /\ current_ex_rate = FallbackRate
    /\ temp_df = <<>>
    /\ idx = 0
    /\ tracker = <<>>
    /\ tracker_keys = <<>>
    /\ row_pnls_orig = <<>>
    /\ realized_pnl_twd = Zero
    /\ holdings_df = <<>>
    /\ realized_all = Zero
    /\ detailed_tx_global = NoFrame
    /\ total_market_val = Zero
    /\ total_holding_cost = Zero
    /\ total_pnl = Zero
    /\ AuxIdle


(***************************************************************************)
(* get_market_data (utils.py:77-105).                                      *)
(***************************************************************************)
\* str(t).strip().upper() at utils.py:80 and logic.py:73.  clean_df
\* (logic.py:10) has already applied it to every ticker of the session's
\* ledger, so on those it changes nothing.
NormTicker(t) ==
    CASE t = "aapl" -> "AAPL"
      [] t = " 2330" -> "2330"
      [] t = "btc" -> "BTC"
      [] OTHER -> t

IsDigitTicker(t) == t \in {"2330"}
HasSuffix(t) == t \in {"2330.TW", "BTC-USD"}

\* utils.py:81  the symbol that is downloaded for a ticker
QuerySymbol(t) ==
    IF HasSuffix(t) THEN t
    ELSE IF t \in {"BTC", "ETH", "SOL", "USDT"}
         THEN CASE t = "BTC" -> "BTC-USD"
                [] t = "ETH" -> "ETH-USD"
                [] t = "SOL" -> "SOL-USD"
                [] OTHER -> "USDT-USD"
         ELSE IF IsDigitTicker(t) THEN "2330.TW" ELSE t

\* utils.py:100  the symbol whose column is read for a ticker
LookupSymbol(t) ==
    IF HasSuffix(t) THEN t
    ELSE IF t \in {"BTC", "ETH", "SOL"}
         THEN CASE t = "BTC" -> "BTC-USD"
                [] t = "ETH" -> "ETH-USD"
                [] OTHER -> "SOL-USD"
         ELSE IF IsDigitTicker(t) THEN "2330.TW" ELSE t

FxSymbol == "TWD=X"

\* app_V7.py:754  transactions[ticker].dropna().unique()
TickersOf(df) == { df[i].ticker : i \in DOMAIN df }

\* A missing ticker (None, NaN) in the argument of get_market_data.
NaN == "NaN"

\* utils.py:80  pd.notna(t)
NotNa(t) == t # NaN

\* utils.py:80
TList(tickers) == { NormTicker(t) : t \in { x \in tickers : NotNa(x) } }

\* utils.py:84  the symbols asked of the download
Requested(tickers) == { QuerySymbol(t) : t \in TList(tickers) } \cup {FxSymbol}

\* utils.py:93-96
RateFrom(columns) == IF FxSymbol \in columns THEN LiveRate ELSE FallbackRate

\* utils.py:98-103
PricesFrom(tickers, columns) ==
    [t \in { o \in TList(tickers) : LookupSymbol(o) \in columns } |-> LivePrice]

\* app_V7.py:753-755, the download delivers the columns it has data for.
GetMarketData ==
    /\ pc = "A"
    /\ transactions # <<>>
    /\ \E columns \in SUBSET Requested(TickersOf(transactions)) :
          /\ prices' = PricesFrom(TickersOf(transactions), columns)
          /\ current_ex_rate' = RateFrom(columns)
    /\ pc' = "calc"
    /\ UNCHANGED <<auxVars, transactions, calcVars, outVars, totalVars>>

\* utils.py:105  the download or the reading of a column raises
GetMarketDataFails ==
    /\ pc = "A"
    /\ transactions # <<>>
    /\ prices' = <<>>
    /\ current_ex_rate' = FallbackRate
    /\ pc' = "calc"
    /\ UNCHANGED <<auxVars, transactions, calcVars, outVars, totalVars>>

\* app_V7.py:753  an empty ledger skips block A
SkipBlockA ==
    /\ pc = "A"
    /\ transactions = <<>>
    /\ pc' = "B"
    /\ UNCHANGED <<auxVars, transactions, marketVars, calcVars, outVars, totalVars>>

(***************************************************************************)
(* calculate_detailed_metrics (logic.py:66-94).                            *)
(***************************************************************************)
Injective(p) == \A i, j \in DOMAIN p : p[i] = p[j] => i = j

\* logic.py:69  df.sort_values(date): ascending by date.  The default sort
\* kind is quicksort, which does not fix the order of rows of equal date.
SortOutcomes(df) ==
    LET n == Len(df)
        perms == { p \in [1..n -> 1..n] : Injective(p) }
        sorted == { p \in perms :
                      \A i \in 1..(n - 1) : df[p[i]].date <= df[p[i + 1]].date }
    IN  { [i \in 1..n |-> df[p[i]]] : p \in sorted }

\* logic.py:69  sort_values is a function of its input: on a ledger it has
\* sorted before, the build returns the same order again; on a new one,
\* any of the date-ascending orders.
SortValues(fn, df) == IF df \in DOMAIN fn THEN {fn[df]} ELSE SortOutcomes(df)

Observed(fn, df, sorted) ==
    [d \in DOMAIN fn \cup {df} |-> IF d = df THEN sorted ELSE fn[d]]

\* NewTracker with the dict of the previous call kept (a module-level dict).
KeptTracker(old) == old

\* logic.py:70  tracker = {}: a new dict on every call
NewTracker(old) == <<>>

\* DfAfterSort with sort_values(inplace=True).
DfSortedInPlace(df, sorted) == sorted

\* logic.py:69  df after df.sort_values(date).copy(): the result is a new
\* frame, df keeps its rows and their order.
DfAfterSort(df, sorted) == df

\* logic.py:67  the empty ledger returns at once: no holdings, 0, and
\* df.assign(row_pnl = 0.0), a new frame with the column added.
CalcEmpty ==
    /\ pc = "calc"
    /\ transactions = <<>>
    /\ holdings_df' = <<>>
    /\ realized_all' = Zero
    /\ detailed_tx_global' = Frame(LedgerColumns \cup {PnlColumn}, <<>>)
    /\ pc' = "valuation"
    /\ UNCHANGED <<auxVars, transactions, marketVars, calcVars, totalVars>>

\* logic.py:68-70
SortLedger ==
    /\ pc = "calc"
    /\ transactions # <<>>
    /\ temp_df' \in SortValues(sort_fn, transactions)
    /\ sort_fn' = Observed(sort_fn, transactions, temp_df')
    /\ transactions' = DfAfterSort(transactions, temp_df')
    /\ idx' = 1
    /\ tracker' = NewTracker(tracker)
    /\ tracker_keys' = <<>>
    /\ row_pnls_orig' = <<>>
    /\ realized_pnl_twd' = Zero
    /\ pc' = "loop"
    /\ UNCHANGED <<callVars, snapVars, syncVars, rerunVars, cycleVars, marketVars, outVars, totalVars>>

\* logic.py:74  the default entry
NewEntry == [qty |-> Zero, cost_basis |-> Zero]

Entry(tr, t) == IF t \in DOMAIN tr THEN tr[t] ELSE NewEntry

Put(tr, t, e) == [k \in DOMAIN tr \cup {t} |-> IF k = t THEN e ELSE tr[k]]

Keys(keys, tr, t) == IF t \in DOMAIN tr THEN keys ELSE Append(keys, t)

\* IsBuy with the test turned round: whatever is not a sell is a buy.
IsNotSell(row) == row.type # "SELL"

\* logic.py:76
IsBuy(row) == row.type = "BUY"

\* BuyEntry with the quantity assigned inside the new_qty > 0 branch.
BuyEntryQtyInBranch(cur, row) ==
    LET new_qty == RAdd(cur.qty, row.qty)
    IN  IF RGt(new_qty, Zero)
        THEN [qty |-> new_qty,
              cost_basis |->
                 RDiv(RAdd(RMul(cur.qty, cur.cost_basis), RMul(row.qty, row.price)),
                      new_qty)]
        ELSE cur

\* BuyEntry with the two prices averaged without their quantities.
BuyEntryUnweighted(cur, row) ==
    LET new_qty == RAdd(cur.qty, row.qty)
    IN  [qty |-> new_qty,
         cost_basis |->
            IF RGt(new_qty, Zero)
            THEN RDiv(RAdd(cur.cost_basis, row.price), <<2, 1>>)
            ELSE cur.cost_basis]

\* BuyEntry with the price of the row as the new average cost.
BuyEntryLastPrice(cur, row) ==
    [qty |-> RAdd(cur.qty, row.qty), cost_basis |-> row.price]

\* BuyEntry with the cost of the quantity already held left out.
BuyEntryIgnoresHeld(cur, row) ==
    LET new_qty == RAdd(cur.qty, row.qty)
    IN  [qty |-> new_qty,
         cost_basis |->
            IF RGt(new_qty, Zero)
            THEN RDiv(RMul(row.qty, row.price), new_qty)
            ELSE cur.cost_basis]

\* BuyEntry that keeps a cost basis once there is one while nothing is held.
BuyEntryKeepsOldCost(cur, row) ==
    LET new_qty == RAdd(cur.qty, row.qty)
    IN  [qty |-> new_qty,
         cost_basis |->
            IF RGt(new_qty, Zero) /\ ~(cur.qty = Zero /\ cur.cost_basis # Zero)
            THEN RDiv(RAdd(RMul(cur.qty, cur.cost_basis), RMul(row.qty, row.price)),
                      new_qty)
            ELSE cur.cost_basis]

\* logic.py:77-80
BuyEntry(cur, row) ==
    LET new_qty == RAdd(cur.qty, row.qty)
    IN  [qty |-> new_qty,
         cost_basis |->
            IF RGt(new_qty, Zero)
            THEN RDiv(RAdd(RMul(cur.qty, cur.cost_basis), RMul(row.qty, row.price)),
                      new_qty)
            ELSE cur.cost_basis]

\* SellPnl over the whole position instead of the quantity sold.
SellPnlWholePosition(cur, row) == RMul(RSub(row.price, cur.cost_basis), cur.qty)

\* logic.py:82
SellPnl(cur, row) == RMul(RSub(row.price, cur.cost_basis), row.qty)

\* SellEntry that clears the cost basis when the position is closed.
SellEntryClearsCost(cur, row) ==
    [qty |-> RSub(cur.qty, row.qty),
     cost_basis |-> IF RSub(cur.qty, row.qty) = Zero THEN Zero ELSE cur.cost_basis]

\* logic.py:84
SellEntry(cur, row) == [qty |-> RSub(cur.qty, row.qty), cost_basis |-> cur.cost_basis]

\* FxFactor without the domestic equity case.
FxFactorAlways(cat, ex_rate) == ex_rate

\* logic.py:83
FxFactor(cat, ex_rate) == IF cat = "TW" THEN One ELSE ex_rate

\* logic.py:72-80, 85  one pass of the loop over a buy row
ProcessBuy ==
    /\ pc = "loop"
    /\ idx <= Len(temp_df)
    /\ IsBuy(temp_df[idx])
    /\ LET row == temp_df[idx]
           t == NormTicker(row.ticker)
       IN  /\ tracker' = Put(tracker, t, BuyEntry(Entry(tracker, t), row))
           /\ tracker_keys' = Keys(tracker_keys, tracker, t)
           /\ row_pnls_orig' = Append(row_pnls_orig, Zero)
    /\ idx' = idx + 1
    /\ UNCHANGED <<auxVars, pc, transactions, marketVars, temp_df, realized_pnl_twd,
                   outVars, totalVars>>

\* logic.py:72-75, 81-85  one pass of the loop over any other row
ProcessSell ==
    /\ pc = "loop"
    /\ idx <= Len(temp_df)
    /\ ~IsBuy(temp_df[idx])
    /\ LET row == temp_df[idx]
           t == NormTicker(row.ticker)
           cur == Entry(tracker, t)
           pnl == SellPnl(cur, row)
       IN  /\ realized_pnl_twd' =
                 RAdd(realized_pnl_twd, RMul(pnl, FxFactor(row.cat, current_ex_rate)))
           /\ tracker' = Put(tracker, t, SellEntry(cur, row))
           /\ tracker_keys' = Keys(tracker_keys, tracker, t)
           /\ row_pnls_orig' = Append(row_pnls_orig, pnl)
    /\ idx' = idx + 1
    /\ UNCHANGED <<auxVars, pc, transactions, marketVars, temp_df, outVars, totalVars>>

\* StillHeld with the threshold 0.
StillHeldPositive(q) == RGt(q, Zero)

\* logic.py:88
StillHeld(q) == RGt(q, Epsilon)

\* FirstCat with match.iloc[-1]: the class of the last row of the ticker.
LastCat(df, t) ==
    LET match == SelectSeq(df, LAMBDA r : r.ticker = t)
    IN  IF match # <<>> THEN match[Len(match)].cat ELSE "TW"

\* logic.py:89-90  the class of the first row of df whose ticker equals t
FirstCat(df, t) ==
    LET match == SelectSeq(df, LAMBDA r : r.ticker = t)
    IN  IF match # <<>> THEN match[1].cat ELSE "TW"

\* logic.py:91
Holding(df, tr, t) ==
    [ticker |-> t, hold_qty |-> tr[t].qty, avg_cost |-> tr[t].cost_basis,
     cat |-> FirstCat(df, t)]

\* logic.py:87-91
Holdings(df, tr, keys) ==
    LET held == SelectSeq(keys, LAMBDA t : StillHeld(tr[t].qty))
    IN  [i \in 1..Len(held) |-> Holding(df, tr, held[i])]

\* Annotated with the buy rows left out of the annotated ledger.
AnnotatedSellsOnly(sorted, pnls) ==
    LET all == [i \in 1..Len(sorted) |-> [row |-> sorted[i], pnl |-> pnls[i]]]
    IN  Frame(LedgerColumns \cup {PnlColumn},
              SelectSeq(all, LAMBDA a : ~IsBuy(a.row)))

\* logic.py:93
Annotated(sorted, pnls) ==
    Frame(LedgerColumns \cup {PnlColumn},
          [i \in 1..Len(sorted) |-> [row |-> sorted[i], pnl |-> pnls[i]]])

\* logic.py:87-94 and the assignment at app_V7.py:756
EmitHoldings ==
    /\ pc = "loop"
    /\ idx > Len(temp_df)
    /\ holdings_df' = Holdings(transactions, tracker, tracker_keys)
    /\ realized_all' = realized_pnl_twd
    /\ detailed_tx_global' = Annotated(temp_df, row_pnls_orig)
    /\ pc' = "valuation"
    /\ UNCHANGED <<auxVars, transactions, marketVars, calcVars, totalVars>>

(***************************************************************************)
(* The core valuation block (app_V7.py:758-779).                           *)
(***************************************************************************)
\* CurrentPrice with fillna(1).
CurrentPriceOrOne(pr, t) == IF t \in DOMAIN pr THEN pr[t] ELSE One

\* app_V7.py:770  map(prices).fillna(0)
CurrentPrice(pr, t) == IF t \in DOMAIN pr THEN pr[t] ELSE Zero

\* ReturnPct that reports 0 for a zero cost.
ReturnPctZeroCost(pnl, cost) ==
    IF cost = Zero THEN Zero ELSE RMul(RDiv(pnl, cost), Hundred)

\* app_V7.py:775
ReturnPct(pnl, cost) == RMul(RDiv(pnl, IF cost = Zero THEN One ELSE cost), Hundred)

\* app_V7.py:771
FxApplied(cat, ex_rate) == IF cat # "TW" THEN ex_rate ELSE One

\* Valued with the cost left in the native currency.
ValuedNativeCost(h, pr, ex_rate) ==
    LET price == CurrentPrice(pr, h.ticker)
        rate == FxApplied(h.cat, ex_rate)
        mv == RMul(RMul(price, h.hold_qty), rate)
        cost == RMul(h.avg_cost, h.hold_qty)
        pnl == RSub(mv, cost)
    IN  [ticker |-> h.ticker, hold_qty |-> h.hold_qty, avg_cost |-> h.avg_cost,
         cat |-> h.cat, current_price |-> price, fx_rate |-> rate,
         market_value_twd |-> mv, cost_twd |-> cost, pnl_twd |-> pnl,
         return_pct |-> ReturnPct(pnl, cost)]

\* app_V7.py:770-775
Valued(h, pr, ex_rate) ==
    LET price == CurrentPrice(pr, h.ticker)
        rate == FxApplied(h.cat, ex_rate)
        mv == RMul(RMul(price, h.hold_qty), rate)
        cost == RMul(RMul(h.avg_cost, h.hold_qty), rate)
        pnl == RSub(mv, cost)
    IN  [ticker |-> h.ticker, hold_qty |-> h.hold_qty, avg_cost |-> h.avg_cost,
         cat |-> h.cat, current_price |-> price, fx_rate |-> rate,
         market_value_twd |-> mv, cost_twd |-> cost, pnl_twd |-> pnl,
         return_pct |-> ReturnPct(pnl, cost)]

\* app_V7.py:777
TotalMarketVal(df) == RSum([i \in 1..Len(df) |-> df[i].market_value_twd])

\* app_V7.py:778
TotalHoldingCost(df) == RSum([i \in 1..Len(df) |-> df[i].cost_twd])

\* app_V7.py:779
TotalPnl(mv, cost, realized) == RAdd(RSub(mv, cost), realized)

\* app_V7.py:758-779
Valuation ==
    /\ pc = "valuation"
    /\ holdings_df # <<>>
    /\ LET df == [i \in 1..Len(holdings_df) |->
                     Valued(holdings_df[i], prices, current_ex_rate)]
       IN  /\ holdings_df' = df
           /\ total_market_val' = TotalMarketVal(df)
           /\ total_holding_cost' = TotalHoldingCost(df)
           /\ total_pnl' = TotalPnl(TotalMarketVal(df), TotalHoldingCost(df), realized_all)
    /\ pc' = "B"
    /\ UNCHANGED <<auxVars, transactions, marketVars, calcVars, realized_all, detailed_tx_global>>

\* app_V7.py:758  an empty holdings table skips the block
SkipValuation ==
    /\ pc = "valuation"
    /\ holdings_df = <<>>
    /\ pc' = "B"
    /\ UNCHANGED <<auxVars, transactions, marketVars, calcVars, outVars, totalVars>>

Next ==
    \/ GetMarketData
    \/ GetMarketDataFails
    \/ SkipBlockA
    \/ SortLedger
    \/ ProcessBuy
    \/ ProcessSell
    \/ EmitHoldings
    \/ Valuation
    \/ SkipValuation

Spec == Init /\ [][Next]_vars

(***************************************************************************)
(* The script run twice on the same session (a Streamlit rerun): the       *)
(* ledger stays, app_V7.py:748-750 starts every run anew.                  *)
(***************************************************************************)
\* Ledgers with rows of one date whose order matters and a foreign holding.
RerunPool ==
    { Trade("2330", "TW", "BUY",  <<1, 1>>, <<10, 1>>, 1),
      Trade("2330", "TW", "SELL", <<1, 1>>, <<20, 1>>, 1),
      Trade("AAPL", "US", "BUY",  <<1, 1>>, <<10, 1>>, 2) }

RerunLedgers == UNION { [1..n -> RerunPool] : n \in 0..MaxRows }

\* app_V7.py:748-750  the script starts again; the results of the run that
\* ended are kept for comparison.  The locals of the last call of
\* calculate_detailed_metrics are out of reach until it is called again.
Rerun ==
    /\ pc = "B"
    /\ run = "first"
    /\ run' = "second"
    /\ first_run' = Results(prices, current_ex_rate, holdings_df, realized_all,
                            detailed_tx_global, total_market_val,
                            total_holding_cost, total_pnl)
    /\ prices' = <<>>
    /\ current_ex_rate' = FallbackRate
    /\ holdings_df' = <<>>
    /\ realized_all' = Zero
    /\ detailed_tx_global' = NoFrame
    /\ total_market_val' = Zero
    /\ total_holding_cost' = Zero
    /\ total_pnl' = Zero
    /\ pc' = "A"
    /\ UNCHANGED <<transactions, calcVars, sort_fn, callVars, snapVars, syncVars, cycleVars>>

InitRerun ==
    /\ pc = "A"
    /\ transactions \in RerunLedgers
    /\ prices = <<>>
    /\ current_ex_rate = FallbackRate
    /\ temp_df = <<>>
    /\ idx = 0
    /\ tracker = <<>>
    /\ tracker_keys = <<>>
    /\ row_pnls_orig = <<>>
    /\ realized_pnl_twd = Zero
    /\ holdings_df = <<>>
    /\ realized_all = Zero
    /\ detailed_tx_global = NoFrame
    /\ total_market_val = Zero
    /\ total_holding_cost = Zero
    /\ total_pnl = Zero
    /\ AuxIdle

NextRerun ==
    \/ Next
    \/ Rerun

SpecRerun == InitRerun /\ [][NextRerun]_vars

(***************************************************************************)
(* get_market_data called on its own (utils.py:77-105): any list of raw    *)
(* tickers, any outcome of the download; pc = "md_ret" is the return.      *)
(***************************************************************************)
\* The tickers a caller may pass: not normalised, with a suffix, missing.
RawTickers == {"2330", " 2330", "aapl", "btc", "BTC-USD", "USDT", NaN}

\* What the download holds for a symbol it was asked for: a column with
\* values, a column of NaN only, or no column.
Status == {"data", "nan", "absent"}

Outcomes(tickers) == [Requested(tickers) -> Status]

\* utils.py:94-101  the columns the code looks for
ReadSymbols(tickers) == {FxSymbol} \cup { LookupSymbol(o) : o \in TList(tickers) }

\* utils.py:95, 102  .dropna().iloc[-1] of a column of NaN only raises
ReadRaises(tickers, outcome) ==
    \E q \in ReadSymbols(tickers) \cap DOMAIN outcome : outcome[q] = "nan"

Columns(outcome) == { q \in DOMAIN outcome : outcome[q] = "data" }

\* utils.py:105  return {}, 32.5
ExceptResult == [prices |-> <<>>, ex_rate |-> FallbackRate]

\* ExceptTarget without the except clause: the error reaches the caller.
ExceptPropagates == "md_raised"

\* utils.py:82, 105  try ... except: return -- an error raised in the
\* block ends the call with a return.
ExceptTarget == "md_ret"

\* utils.py:79  if not tickers: return {}, 32.5
MdNoTickers ==
    /\ pc = "md"
    /\ md_tickers = {}
    /\ prices' = <<>>
    /\ current_ex_rate' = FallbackRate
    /\ pc' = "md_ret"
    /\ UNCHANGED <<callVars, snapVars, syncVars, sort_fn, rerunVars, cycleVars, transactions, calcVars, outVars, totalVars>>

\* utils.py:84, 105  yf.download raises
MdDownloadRaises ==
    /\ pc = "md"
    /\ md_tickers # {}
    /\ md_download' = [state |-> "raised", columns |-> <<>>]
    /\ pc' = ExceptTarget
    /\ IF pc' = "md_ret"
       THEN prices' = ExceptResult.prices /\ current_ex_rate' = ExceptResult.ex_rate
       ELSE UNCHANGED marketVars
    /\ UNCHANGED <<md_tickers, snapVars, syncVars, sort_fn, rerunVars, cycleVars, transactions, calcVars, outVars, totalVars>>

\* utils.py:84-104  the download returns; the rate and the prices are read
MdDownload ==
    /\ pc = "md"
    /\ md_tickers # {}
    /\ \E outcome \in Outcomes(md_tickers) :
          /\ md_download' = [state |-> "returned", columns |-> outcome]
          /\ IF ReadRaises(md_tickers, outcome)
             THEN /\ pc' = ExceptTarget
                  /\ IF pc' = "md_ret"
                     THEN /\ prices' = ExceptResult.prices
                          /\ current_ex_rate' = ExceptResult.ex_rate
                     ELSE UNCHANGED marketVars
             ELSE /\ pc' = "md_ret"
                  /\ prices' = PricesFrom(md_tickers, Columns(outcome))
                  /\ current_ex_rate' = RateFrom(Columns(outcome))
    /\ UNCHANGED <<md_tickers, snapVars, syncVars, sort_fn, rerunVars, cycleVars, transactions, calcVars, outVars, totalVars>>

InitMarket ==
    /\ pc = "md"
    /\ md_tickers \in SUBSET RawTickers
    /\ md_download = NoDownload
    /\ SnapIdle
    /\ SyncIdle
    /\ RerunIdle
    /\ CycleIdle
    /\ CoreIdle

NextMarket ==
    \/ MdNoTickers
    \/ MdDownloadRaises
    \/ MdDownload

SpecMarket == InitMarket /\ [][NextMarket]_vars

(***************************************************************************)
(* save_daily_snapshot (logic.py:49-64) called cycle after cycle, by any   *)
(* user on any day, with the amounts of app_V7.py:782-787.                 *)
(***************************************************************************)
MaxDay == 2
Users == {"u1", "u2"}
Days == 1..MaxDay

\* The amounts a cycle may pass.
MarketVals == {Zero, LivePrice}
LiquidityVals == {Zero}
LiabilityVals == {Zero, <<5, 1>>}

\* logic.py:52-59  the dict data
SnapshotData(u, m_val, l_val, liab_val, net_val, day) ==
    [user_id |-> u, market_value |-> m_val, liquidity_amount |-> l_val,
     liabilities_amount |-> liab_val, net_assets |-> net_val,
     snapshot_date |-> day]

\* on_conflict = user_id, snapshot_date
SameKey(a, b) == a.user_id = b.user_id /\ a.snapshot_date = b.snapshot_date

\* Upsert as a plain insert.
InsertRow(table, data) == Append(table, data)

\* logic.py:62  upsert(data, on_conflict = user_id, snapshot_date): the row
\* with the key of data is replaced, or data is added when there is none.
Upsert(table, data) ==
    IF \E i \in DOMAIN table : SameKey(table[i], data)
    THEN [i \in DOMAIN table |->
             IF SameKey(table[i], data) THEN data ELSE table[i]]
    ELSE Append(table, data)

\* Net assets without the liabilities.
NetAssetsNoLiabilities(m_val, l_val, liab_val) == RAdd(m_val, l_val)

\* app_V7.py:784
NetAssets(m_val, l_val, liab_val) == RSub(RAdd(m_val, l_val), liab_val)

\* app_V7.py:787, logic.py:49-62  the call stores the snapshot
SaveDailySnapshot ==
    /\ pc = "snap"
    /\ \E m_val \in MarketVals, l_val \in LiquidityVals, liab_val \in LiabilityVals :
          LET data == SnapshotData(user_id, m_val, l_val, liab_val,
                                   NetAssets(m_val, l_val, liab_val), today)
          IN  /\ snapshots' = Upsert(snapshots, data)
              /\ snap_result' = "stored"
              /\ last_ok' = [k \in DOMAIN last_ok \cup {<<user_id, today>>} |->
                                IF k = <<user_id, today>> THEN data ELSE last_ok[k]]
    /\ UNCHANGED <<pc, user_id, today, callVars, syncVars, sort_fn, rerunVars, cycleVars, coreVars>>

\* logic.py:63-64  the request raises; except: pass
SaveDailySnapshotFails ==
    /\ pc = "snap"
    /\ snap_result' = "failed"
    /\ UNCHANGED <<pc, snapshots, user_id, today, last_ok, callVars, syncVars, sort_fn, rerunVars, cycleVars, coreVars>>

\* The calendar day changes between two cycles.
NextDay ==
    /\ pc = "snap"
    /\ today < MaxDay
    /\ today' = today + 1
    /\ UNCHANGED <<pc, snapshots, user_id, snap_result, last_ok, callVars, syncVars, sort_fn, rerunVars, cycleVars, coreVars>>

\* Another user signs in (st.session_state.user_id).
SwitchUser ==
    /\ pc = "snap"
    /\ \E u \in Users \ {user_id} : user_id' = u
    /\ UNCHANGED <<pc, snapshots, today, snap_result, last_ok, callVars, syncVars, sort_fn, rerunVars, cycleVars, coreVars>>

InitSnap ==
    /\ pc = "snap"
    /\ snapshots = <<>>
    /\ user_id \in Users
    /\ today = 1
    /\ snap_result = "none"
    /\ last_ok = <<>>
    /\ CallIdle
    /\ SyncIdle
    /\ RerunIdle
    /\ CycleIdle
    /\ CoreIdle

NextSnap ==
    \/ SaveDailySnapshot
    \/ SaveDailySnapshotFails
    \/ NextDay
    \/ SwitchUser

SpecSnap == InitSnap /\ [][NextSnap]_vars

(***************************************************************************)
(* Ingestion: a row of the transactions editor is saved by                 *)
(* _sync_transactions (app_V7.py:381-440) and read back by fetch_all_data  *)
(* through clean_df (logic.py:5-20).  Cell values are kept as the editor   *)
(* hands them over: texts, "None" for an empty cell.                       *)
(***************************************************************************)
NoId == 0
NaT == "NaT"

\* The texts float() accepts, and the dates pd.to_datetime parses.
FloatTexts == {"0", "1", "10"}
DateTexts == {"2024-01-02"}

RawRows ==
    [id : {NoId, 1}, ticker : {"2330", ""}, qty : {"1", "0", "abc", "None"},
     price : {"10", "abc", "None"}, date : {"2024-01-02", "bad", "None"}]

\* The table before the save: one row, the row of id 1.
SeedRows ==
    << [id |-> 1, ticker |-> "2330", qty |-> One, price |-> <<10, 1>>,
        date |-> "2024-01-02"] >>

\* float(v)
FloatOf(v) ==
    CASE v = "0" -> Zero
      [] v = "1" -> One
      [] v = "10" -> <<10, 1>>

\* app_V7.py:219-227  None, NaN and whatever float() refuses give default
SafeFloat(v, default) ==
    IF v = "None" THEN default
    ELSE IF v \in FloatTexts THEN FloatOf(v) ELSE default

\* app_V7.py:419-422  None for an empty cell, else the ISO text of
\* pd.to_datetime(date_v, errors="coerce").date(): NaT when unparseable
DateIso(v) ==
    IF v = "None" THEN "None"
    ELSE IF v \in DateTexts THEN v ELSE NaT

\* app_V7.py:405-410, 424-435  (type and class are carried as they are)
Payload(row) ==
    [ticker |-> row.ticker, qty |-> SafeFloat(row.qty, Zero),
     price |-> SafeFloat(row.price, Zero), date |-> DateIso(row.date)]

\* app_V7.py:414-416  a new row without ticker or quantity is left out
Skipped(row) ==
    (row.ticker = "" \/ ~RGt(SafeFloat(row.qty, Zero), Zero)) /\ row.id = NoId

WithId(payload, id) ==
    [id |-> id, ticker |-> payload.ticker, qty |-> payload.qty,
     price |-> payload.price, date |-> payload.date]

\* app_V7.py:404-440  one pass of the loop: the row is left out, inserted
\* or written over the stored row of its id
SyncRow ==
    /\ pc = "sync"
    /\ IF Skipped(raw_row)
       THEN db' = db /\ sync_result' = "skipped"
       ELSE IF raw_row.id = NoId
            THEN /\ db' = Append(db, WithId(Payload(raw_row), Len(db) + 1))
                 /\ sync_result' = "inserted"
            ELSE /\ db' = [i \in DOMAIN db |->
                              IF db[i].id = raw_row.id
                              THEN WithId(Payload(raw_row), raw_row.id)
                              ELSE db[i]]
                 /\ sync_result' = "updated"
    /\ pc' = "synced"
    /\ UNCHANGED <<raw_row, callVars, snapVars, sort_fn, rerunVars, cycleVars, coreVars>>

\* app_V7.py:437-440, 1189-1194  the request raises (the connection, or the
\* store refusing a value); the caller reports the failure
SyncRowFails ==
    /\ pc = "sync"
    /\ ~Skipped(raw_row)
    /\ sync_result' = "failed"
    /\ pc' = "synced"
    /\ UNCHANGED <<raw_row, db, callVars, snapVars, sort_fn, rerunVars, cycleVars, coreVars>>

\* logic.py:12  pd.to_datetime(errors='coerce'): NaT when missing or
\* unparseable
ToDatetime(v) == IF v \in DateTexts THEN v ELSE NaT

\* logic.py:5-13, 19-20  the stored rows become the session's ledger
CleanDf(rows) ==
    [i \in DOMAIN rows |->
        Trade(NormTicker(rows[i].ticker), "TW", "BUY", rows[i].qty,
              rows[i].price, ToDatetime(rows[i].date))]

\* app_V7.py:1192, logic.py:19-20  fetch_all_data
FetchAllData ==
    /\ pc = "synced"
    /\ transactions' = CleanDf(db)
    /\ pc' = "fetched"
    /\ UNCHANGED <<auxVars, marketVars, calcVars, outVars, totalVars>>

InitIngest ==
    /\ pc = "sync"
    /\ raw_row \in RawRows
    /\ db = SeedRows
    /\ sync_result = "none"
    /\ CallIdle
    /\ SnapIdle
    /\ RerunIdle
    /\ CycleIdle
    /\ CoreIdle

NextIngest ==
    \/ SyncRow
    \/ SyncRowFails
    \/ FetchAllData

SpecIngest == InitIngest /\ [][NextIngest]_vars

(***************************************************************************)
(* calculate_detailed_metrics called on its own: any ledger, the empty one *)
(* included, and a rate; pc = "valuation" is the return to the caller.     *)
(***************************************************************************)
InitFn ==
    /\ pc = "calc"
    /\ transactions \in FnLedgers
    /\ prices = <<>>
    /\ current_ex_rate = LiveRate
    /\ temp_df = <<>>
    /\ idx = 0
    /\ tracker = <<>>
    /\ tracker_keys = <<>>
    /\ row_pnls_orig = <<>>
    /\ realized_pnl_twd = Zero
    /\ holdings_df = <<>>
    /\ realized_all = Zero
    /\ detailed_tx_global = NoFrame
    /\ total_market_val = Zero
    /\ total_holding_cost = Zero
    /\ total_pnl = Zero
    /\ AuxIdle

NextFn ==
    \/ CalcEmpty
    \/ SortLedger
    \/ ProcessBuy
    \/ ProcessSell
    \/ EmitHoldings

SpecFn == InitFn /\ [][NextFn]_vars

(***************************************************************************)
(* The whole valuation cycle: the core block, block B (liquidity,          *)
(* liabilities, net assets) and the call of save_daily_snapshot with the   *)
(* script's own totals (app_V7.py:748-787).                                *)
(***************************************************************************)
MaxAccounts == 2

\* The amount column of a liquidity or liabilities table.
Amounts == {<<5, 1>>, <<10, 1>>}
AmountFrames == UNION { [1..n -> Amounts] : n \in 0..MaxAccounts }

RECURSIVE AmountTotal(_)
AmountTotal(df) ==
    IF df = <<>> THEN Zero
    ELSE RAdd(df[1], AmountTotal(Tail(df)))

\* app_V7.py:782-783  df['amount'].sum() if not df.empty else 0
AmountSum(df) == IF df # <<>> THEN AmountTotal(df) ELSE Zero

\* The snapshot store before the cycle: empty, a row of today that an
\* earlier cycle stored, or a row of another user.
SeedStores ==
    { <<>>,
      <<SnapshotData("u1", LivePrice, Zero, Zero, LivePrice, 1)>>,
      <<SnapshotData("u2", LivePrice, Zero, Zero, LivePrice, 1)>> }

\* app_V7.py:782-784  block B
BlockB ==
    /\ pc = "B"
    /\ \E liquidity_df \in AmountFrames, liabilities_df \in AmountFrames :
          /\ total_liquidity' = AmountSum(liquidity_df)
          /\ total_liabilities' = AmountSum(liabilities_df)
          /\ net_assets' = NetAssets(total_market_val, AmountSum(liquidity_df),
                                     AmountSum(liabilities_df))
    /\ pc' = "snapshot"
    /\ UNCHANGED <<snap_calls, callVars, snapVars, syncVars, sort_fn, rerunVars, coreVars>>

\* app_V7.py:787, logic.py:49-62  the call stores the script's totals
CycleSnapshot ==
    /\ pc = "snapshot"
    /\ snapshots' = Upsert(snapshots,
                           SnapshotData(user_id, total_market_val, total_liquidity,
                                        total_liabilities, net_assets, today))
    /\ snap_result' = "stored"
    /\ snap_calls' = snap_calls + 1
    /\ pc' = "C"
    /\ UNCHANGED <<user_id, today, last_ok, total_liquidity, total_liabilities,
                   net_assets, callVars, syncVars, sort_fn, rerunVars, coreVars>>

\* app_V7.py:787, logic.py:61-64  the upsert raises; except: pass
CycleSnapshotFails ==
    /\ pc = "snapshot"
    /\ snap_result' = "failed"
    /\ snap_calls' = snap_calls + 1
    /\ pc' = "C"
    /\ UNCHANGED <<snapshots, user_id, today, last_ok, total_liquidity,
                   total_liabilities, net_assets, callVars, syncVars, sort_fn,
                   rerunVars, coreVars>>

InitCycle ==
    /\ pc = "A"
    /\ transactions \in RerunLedgers
    /\ prices = <<>>
    /\ current_ex_rate = FallbackRate
    /\ temp_df = <<>>
    /\ idx = 0
    /\ tracker = <<>>
    /\ tracker_keys = <<>>
    /\ row_pnls_orig = <<>>
    /\ realized_pnl_twd = Zero
    /\ holdings_df = <<>>
    /\ realized_all = Zero
    /\ detailed_tx_global = NoFrame
    /\ total_market_val = Zero
    /\ total_holding_cost = Zero
    /\ total_pnl = Zero
    /\ snapshots \in SeedStores
    /\ user_id = "u1"
    /\ today = 1
    /\ snap_result = "none"
    /\ last_ok = <<>>
    /\ CallIdle
    /\ SyncIdle
    /\ RerunIdle
    /\ CycleIdle

NextCycle ==
    \/ Next
    \/ BlockB
    \/ CycleSnapshot
    \/ CycleSnapshotFails

SpecCycle == InitCycle /\ [][NextCycle]_vars

(***************************************************************************)
(* Properties.                                                             *)
(***************************************************************************)
\* The loop is about to process row idx, a buy / any other row.
AtBuy == pc = "loop" /\ idx <= Len(temp_df) /\ temp_df[idx].type = "BUY"
AtSell == pc = "loop" /\ idx <= Len(temp_df) /\ temp_df[idx].type # "BUY"

\* The loop has just processed row idx - 1.
LastRow == temp_df[idx - 1]
AfterBuy == pc = "loop" /\ idx > 1 /\ LastRow.type = "BUY"
AfterSell == pc = "loop" /\ idx > 1 /\ LastRow.type # "BUY"

\* Every row has been processed.
LoopDone == (pc = "loop" /\ idx > Len(temp_df)) \/ pc = "valuation"
               \/ (pc = "B" /\ transactions # <<>>)

\* The holdings have been emitted / valued.
Emitted == pc = "valuation" \/ (pc = "B" /\ transactions # <<>>)
AfterValuation == pc = "B" /\ holdings_df # <<>>

QtySum(df, t, types) ==
    LET rows == SelectSeq(df, LAMBDA r : r.ticker = t /\ r.type \in types)
    IN  RSum([i \in 1..Len(rows) |-> rows[i].qty])

RowsOf(df, t) == { i \in DOMAIN df : df[i].ticker = t }

\* C1: a sell row leaves the average cost of every ticker as it was before
\* the row; only buy rows may change an average cost.
C1_SellKeepsAverageCost ==
    [][AtSell =>
         \A t \in DOMAIN tracker' :
            tracker'[t].cost_basis = Entry(tracker, t).cost_basis]_vars

\* C1 witness: a sell has just been processed on a ticker whose average
\* cost is not zero.
C1_Witness ==
    /\ AfterSell
    /\ tracker[LastRow.ticker].cost_basis # Zero

\* C2: once every row is processed, the running quantity of each ticker is
\* the sum of its buy quantities minus the sum of its sell quantities, also
\* when that is negative.
C2_QuantityIsBuysMinusSells ==
    LoopDone =>
        /\ DOMAIN tracker = TickersOf(transactions)
        /\ \A t \in DOMAIN tracker :
              tracker[t].qty = RSub(QtySum(transactions, t, {"BUY"}),
                                    QtySum(transactions, t, {"SELL"}))

\* C2 witness: a finished ledger with a ticker that was bought and sold and
\* ends oversold.
C2_Witness ==
    /\ LoopDone
    /\ \E t \in DOMAIN tracker :
          /\ RGt(Zero, tracker[t].qty)
          /\ \E i, j \in RowsOf(transactions, t) :
                transactions[i].type = "BUY" /\ transactions[j].type = "SELL"

\* C3: a buy of q at p on (quantity, average_cost) gives quantity + q, the
\* row's P&L 0, and the average cost (quantity*average_cost + q*p) /
\* (quantity + q) when quantity + q > 0, the old average cost otherwise.
C3_BuyUpdate ==
    [][AtBuy =>
         LET row == temp_df[idx]
             old == Entry(tracker, row.ticker)
             new == tracker'[row.ticker]
         IN  /\ new.qty = RAdd(old.qty, row.qty)
             /\ row_pnls_orig' = Append(row_pnls_orig, Zero)
             /\ realized_pnl_twd' = realized_pnl_twd
             /\ IF RGt(RAdd(old.qty, row.qty), Zero)
                THEN RMul(new.cost_basis, RAdd(old.qty, row.qty))
                       = RAdd(RMul(old.qty, old.cost_basis), RMul(row.qty, row.price))
                ELSE new.cost_basis = old.cost_basis]_vars

\* C3 witness: a buy has just been added to a position already held at
\* another cost, so the average lies strictly between the two prices.
C3_Witness ==
    /\ AfterBuy
    /\ RGt(tracker[LastRow.ticker].qty, LastRow.qty)
    /\ tracker[LastRow.ticker].cost_basis # LastRow.price
    /\ tracker[LastRow.ticker].cost_basis[2] # 1

\* C4: the native P&L of a sell row of q at p is (p - average_cost) * q
\* with the average cost of the moment; before any buy that is p * q.
C4_SellPnl ==
    [][AtSell =>
         LET row == temp_df[idx]
             old == Entry(tracker, row.ticker)
         IN  /\ Len(row_pnls_orig') = idx
             /\ row_pnls_orig'[idx] =
                   RSub(RMul(row.price, row.qty), RMul(old.cost_basis, row.qty))
             /\ (row.ticker \notin DOMAIN tracker =>
                   row_pnls_orig'[idx] = RMul(row.price, row.qty))]_vars

\* C4 witness: a sell has just been processed against a non-zero average
\* cost on a position larger than the sale, with a non-zero P&L.
C4_Witness ==
    /\ AfterSell
    /\ tracker[LastRow.ticker].cost_basis # Zero
    /\ RGt(tracker[LastRow.ticker].qty, Zero)
    /\ row_pnls_orig[idx - 1] # Zero

\* C5: the realized P&L returned is the sum over the sell rows of the row's
\* native P&L times 1 for a domestic equity row and times the FX rate for
\* any other row; buy rows add nothing.
C5_RealizedPnlTwd ==
    Emitted =>
        realized_all =
            RSum([i \in 1..Len(temp_df) |->
                    IF temp_df[i].type = "BUY" THEN Zero
                    ELSE RMul(row_pnls_orig[i],
                              IF temp_df[i].cat = "TW" THEN One ELSE current_ex_rate)])

\* C5 witness: a ledger with a domestic sell and a foreign sell, both with
\* a non-zero P&L, and a buy.
C5_Witness ==
    /\ Emitted
    /\ \E i, j, k \in DOMAIN temp_df :
          /\ temp_df[i].type = "SELL" /\ temp_df[i].cat = "TW"
          /\ temp_df[j].type = "SELL" /\ temp_df[j].cat # "TW"
          /\ temp_df[k].type = "BUY"
          /\ row_pnls_orig[i] # Zero /\ row_pnls_orig[j] # Zero

\* C6: the holdings hold exactly one row for each ticker whose final
\* quantity is above 0.0001 and none for any other ticker; the realized
\* P&L of a ticker that was sold out is still in the realized P&L returned.
C6_HoldingsAreHeldTickers ==
    Emitted =>
        /\ \A t \in DOMAIN tracker :
              Cardinality({ i \in DOMAIN holdings_df : holdings_df[i].ticker = t })
                 = IF tracker[t].qty[1] * 10000 > tracker[t].qty[2] THEN 1 ELSE 0
        /\ \A i \in DOMAIN holdings_df :
              /\ holdings_df[i].ticker \in DOMAIN tracker
              /\ holdings_df[i].hold_qty = tracker[holdings_df[i].ticker].qty
        /\ realized_all = realized_pnl_twd

\* C6 witness: one ticker bought and sold out at a gain, so without a row,
\* beside a ticker that is held.
C6_Witness ==
    /\ Emitted
    /\ realized_all # Zero
    /\ \E t, u \in DOMAIN tracker :
          /\ tracker[t].qty = Zero
          /\ \E i \in RowsOf(transactions, t) : transactions[i].type = "BUY"
          /\ \A i \in DOMAIN holdings_df : holdings_df[i].ticker # t
          /\ \E i \in DOMAIN holdings_df : holdings_df[i].ticker = u

\* C7: at the end of every valuation cycle the total P&L is
\* (total_market_value - total_cost) + realized_pnl_twd, also for a ledger
\* whose positions are all sold so that the holdings table is empty.
C7_TotalPnlKeepsRealized ==
    pc = "B" =>
        total_pnl = RAdd(RSub(total_market_val, total_holding_cost), realized_all)

\* C8 as claimed: a holding without an entry in the price mapping has
\* current_price 0, market_value_twd 0 and return_pct -100.
C8_MissingPriceIsFullLoss ==
    AfterValuation =>
        \A i \in DOMAIN holdings_df :
           holdings_df[i].ticker \notin DOMAIN prices =>
              /\ holdings_df[i].current_price = Zero
              /\ holdings_df[i].market_value_twd = Zero
              /\ holdings_df[i].return_pct = <<-100, 1>>

\* C8 as amended: a holding without an entry in the price mapping has
\* current_price 0 and market_value_twd 0; its return_pct is -100 when its
\* cost_twd is not 0, and 0 when its cost_twd is 0.
C8_MissingPriceAmended ==
    AfterValuation =>
        \A i \in DOMAIN holdings_df :
           holdings_df[i].ticker \notin DOMAIN prices =>
              /\ holdings_df[i].current_price = Zero
              /\ holdings_df[i].market_value_twd = Zero
              /\ holdings_df[i].return_pct =
                    IF holdings_df[i].cost_twd # Zero THEN <<-100, 1>> ELSE Zero

\* C8 witness: a valued holding with a cost and without a price.
C8_Witness ==
    /\ AfterValuation
    /\ \E i \in DOMAIN holdings_df :
          /\ holdings_df[i].ticker \notin DOMAIN prices
          /\ holdings_df[i].cost_twd # Zero
          /\ holdings_df[i].return_pct = <<-100, 1>>

\* C9: return_pct is pnl_twd / cost_twd * 100 when cost_twd is not 0 and
\* pnl_twd * 100 when cost_twd is 0.
C9_ReturnPct ==
    AfterValuation =>
        \A i \in DOMAIN holdings_df :
           LET h == holdings_df[i]
           IN  IF h.cost_twd # Zero
               THEN RMul(h.return_pct, h.cost_twd) = RMul(h.pnl_twd, Hundred)
               ELSE h.return_pct = RMul(h.pnl_twd, Hundred)

\* C9 witness: a valued holding of average cost 0 with a price, so with a
\* cost of 0 and a P&L that is not 0.
C9_Witness ==
    /\ AfterValuation
    /\ \E i \in DOMAIN holdings_df :
          /\ holdings_df[i].avg_cost = Zero
          /\ holdings_df[i].cost_twd = Zero
          /\ holdings_df[i].current_price = LivePrice
          /\ holdings_df[i].return_pct # Zero

\* C10: fx_rate_applied is 1 for a domestic equity holding and the cycle's
\* FX rate otherwise; market_value_twd = current_price * quantity * rate,
\* cost_twd = average_cost * quantity * rate, pnl_twd is their difference,
\* and the totals are the sums of market_value_twd and of cost_twd.
C10_NormalizedValues ==
    pc = "B" =>
        /\ holdings_df # <<>> =>
              \A i \in DOMAIN holdings_df :
                 LET h == holdings_df[i]
                 IN  /\ h.fx_rate = IF h.cat = "TW" THEN One ELSE current_ex_rate
                     /\ h.market_value_twd =
                           RMul(h.current_price, RMul(h.hold_qty, h.fx_rate))
                     /\ h.cost_twd = RMul(h.avg_cost, RMul(h.hold_qty, h.fx_rate))
                     /\ RAdd(h.pnl_twd, h.cost_twd) = h.market_value_twd
                     /\ h.hold_qty = tracker[h.ticker].qty
                     /\ h.avg_cost = tracker[h.ticker].cost_basis
        /\ total_market_val =
              RSum([i \in DOMAIN holdings_df |-> holdings_df[i].market_value_twd])
        /\ total_holding_cost =
              RSum([i \in DOMAIN holdings_df |-> holdings_df[i].cost_twd])

\* C10 witness: a domestic and a foreign holding valued in one cycle, both
\* with a price and a cost.
C10_Witness ==
    /\ AfterValuation
    /\ \E i, j \in DOMAIN holdings_df :
          /\ holdings_df[i].cat = "TW" /\ holdings_df[j].cat # "TW"
          /\ holdings_df[i].market_value_twd # Zero
          /\ holdings_df[j].market_value_twd # Zero
          /\ holdings_df[i].cost_twd # Zero
          /\ holdings_df[j].cost_twd # Zero

\* C11: for an empty ledger the holdings are empty, the realized P&L is 0
\* and the total market value, total holding cost and total P&L are 0.
C11_EmptyLedgerAllZero ==
    (pc = "B" /\ transactions = <<>>) =>
        /\ holdings_df = <<>>
        /\ realized_all = Zero
        /\ total_market_val = Zero
        /\ total_holding_cost = Zero
        /\ total_pnl = Zero

\* C11 witness: the cycle of an empty ledger has passed block A.
C11_Witness ==
    /\ pc = "B"
    /\ transactions = <<>>
    /\ holdings_df = <<>>
    /\ total_pnl = Zero


\* The function has returned to its caller (SpecFn).
Returned == pc = "valuation"

\* C19 as stated: calculate_detailed_metrics never changes its input ledger,
\* and for an empty ledger the ledger it returns is identical to the input
\* (same rows, same order, same columns).
C19_InputUntouchedEmptyIdentical ==
    [][/\ transactions' = transactions
       /\ (Returned' /\ transactions' = <<>>) =>
              detailed_tx_global' = Frame(LedgerColumns, transactions')]_vars

\* C19 amended: calculate_detailed_metrics never changes its input ledger,
\* and for an empty ledger the ledger it returns has the input's rows (none)
\* and the input's columns plus the per-row P&L column.
C19_InputUntouchedEmptyGainsColumn ==
    [][/\ transactions' = transactions
       /\ (Returned' /\ transactions' = <<>>) =>
              detailed_tx_global' =
                  Frame(LedgerColumns \cup {PnlColumn}, transactions')]_vars

\* C19 witness: a call on a ledger whose rows are not in date order has
\* returned: the sorted copy differs from the input, the input is as given.
C19_Witness ==
    /\ Returned
    /\ Len(transactions) >= 2
    /\ transactions[1].date > transactions[2].date
    /\ temp_df # transactions
    /\ detailed_tx_global.rows # <<>>

\* C20: the asset class of every emitted holding is the class of the first
\* row of its ticker in the input ledger, in input order, whatever the
\* classes of the ticker's other rows; it is the class of some row of the
\* ticker.
C20_ClassOfFirstInputRow ==
    Returned =>
        \A i \in DOMAIN holdings_df :
            LET h == holdings_df[i]
                rows == RowsOf(transactions, h.ticker)
                first == CHOOSE j \in rows : \A k \in rows : j <= k
            IN  /\ rows # {}
                /\ h.cat = transactions[first].cat
                /\ \E k \in rows : transactions[k].cat = h.cat

\* C20 witness: a held ticker whose first input row has another class than
\* its first row in date order and than its last input row.
C20_Witness ==
    /\ Returned
    /\ \E i \in DOMAIN holdings_df :
          LET h == holdings_df[i]
              rows == RowsOf(transactions, h.ticker)
              first == CHOOSE j \in rows : \A k \in rows : j <= k
              last == CHOOSE j \in rows : \A k \in rows : j >= k
              firstByDate == CHOOSE j \in RowsOf(temp_df, h.ticker) :
                                 \A k \in RowsOf(temp_df, h.ticker) : j <= k
          IN  /\ h.cat = transactions[first].cat
              /\ h.cat # transactions[last].cat
              /\ h.cat # temp_df[firstByDate].cat

\* The loop has just processed two buy rows in a row, both of ticker t, and
\* no earlier row of t: t started at quantity 0.
TwoBuysFromZero(t) ==
    /\ pc = "loop"
    /\ idx >= 3
    /\ temp_df[idx - 2].ticker = t /\ IsBuy(temp_df[idx - 2])
    /\ temp_df[idx - 1].ticker = t /\ IsBuy(temp_df[idx - 1])
    /\ \A i \in 1..(idx - 3) : temp_df[i].ticker # t

\* C13: buys commute for the cost basis: for a ticker starting at quantity
\* 0, the quantity and average cost after buy q1@p1 then buy q2@p2 are those
\* of processing buy q2@p2 then buy q1@p1.
C13_BuysCommute ==
    \A t \in DOMAIN tracker :
        TwoBuysFromZero(t) =>
            tracker[t] =
                BuyEntry(BuyEntry(NewEntry, temp_df[idx - 1]), temp_df[idx - 2])

\* C13 witness: two buys of different quantity and price, 1 @ 10 then
\* 2 @ 20, leave quantity 3 at average cost 50/3.
C13_Witness ==
    /\ TwoBuysFromZero("AAPL")
    /\ temp_df[idx - 2].qty # temp_df[idx - 1].qty
    /\ temp_df[idx - 2].price # temp_df[idx - 1].price
    /\ tracker["AAPL"] = [qty |-> <<3, 1>>, cost_basis |-> <<50, 3>>]

\* The rows of df in ascending date order, rows of equal date in their
\* order in df: the result of a stable sort by date.
RECURSIVE ConcatByDate(_, _)
ConcatByDate(df, dates) ==
    IF dates = {} THEN <<>>
    ELSE LET d == CHOOSE x \in dates : \A y \in dates : x <= y
         IN  SelectSeq(df, LAMBDA r : r.date = d) \o ConcatByDate(df, dates \ {d})

StableByDate(df) == ConcatByDate(df, { df[i].date : i \in DOMAIN df })

\* The rows of the sorted copy are in ascending date order.
AscendingByDate(df) == \A i, j \in DOMAIN df : i < j => df[i].date <= df[j].date

\* C14: the rows are processed in ascending date order, rows of equal date
\* in their relative order in the input ledger (stable tie-break), for
\* every input ledger.
C14_AscendingStableOrder ==
    (pc = "loop" \/ (Returned /\ transactions # <<>>)) =>
        /\ AscendingByDate(temp_df)
        /\ temp_df = StableByDate(transactions)

\* The running quantity of ticker t after the first k rows of the sorted
\* copy: buys minus the rows processed as sells.
RunningQty(t, k) ==
    LET done == SubSeq(temp_df, 1, k)
    IN  RSub(QtySum(done, t, {"BUY"}), QtySum(done, t, ActionTypes \ {"BUY"}))

\* Some sell of t exceeded the tracked holding: the running quantity of t
\* was negative after some row.
Oversold(t) == \E k \in 1..Len(temp_df) : RGt(Zero, RunningQty(t, k))

\* C15: a ticker with an oversold position (some sell exceeds the tracked
\* holding, the running quantity goes negative) is processed to the end and
\* is excluded from the holdings output.
C15_OversoldExcluded ==
    (Returned /\ transactions # <<>>) =>
        \A t \in DOMAIN tracker :
            Oversold(t) => \A i \in DOMAIN holdings_df : holdings_df[i].ticker # t

\* A price is available for the normalised ticker t: the download returned
\* and the column the code reads for t holds values.
PriceAvailable(t) ==
    /\ md_download.state = "returned"
    /\ LookupSymbol(t) \in DOMAIN md_download.columns
    /\ md_download.columns[LookupSymbol(t)] = "data"

\* The FX rate is unavailable: the ticker list is empty, the download
\* failed, or it returned without values in the FX column.
FxUnavailable ==
    \/ md_tickers = {}
    \/ md_download.state = "raised"
    \/ /\ md_download.state = "returned"
       /\ md_download.columns[FxSymbol] # "data"

\* C17: get_market_data never raises to its caller; the keys of the returned
\* mapping are normalised requested tickers, a ticker without an available
\* price is omitted, and the FX rate is 32.5 when the FX rate is
\* unavailable, the ticker list is empty or the download fails.
C17_MarketDataNeverRaises ==
    /\ pc # "md_raised"
    /\ pc = "md_ret" =>
          /\ DOMAIN prices \subseteq
                 { NormTicker(t) : t \in { x \in md_tickers : x # NaN } }
          /\ \A t \in DOMAIN prices : PriceAvailable(t)
          /\ FxUnavailable => current_ex_rate = FallbackRate

\* C17 witness: a call with tickers that are not normalised priced one of
\* them under its normalised name, omitted the other and fell back to 32.5
\* for want of the FX column.
C17_Witness ==
    /\ pc = "md_ret"
    /\ md_tickers = {"aapl", "btc"}
    /\ DOMAIN prices = {"AAPL"}
    /\ current_ex_rate = FallbackRate
    /\ md_download.state = "returned"

\* The key of a stored snapshot.
KeyOf(row) == <<row.user_id, row.snapshot_date>>

\* C16: after any sequence of save_daily_snapshot calls, by any users on
\* any days, the store holds at most one snapshot per (user, day), and that
\* snapshot carries the values of the most recent successful call of that
\* user and day.
C16_OneSnapshotPerUserDay ==
    pc = "snap" =>
        /\ \A i, j \in DOMAIN snapshots :
               SameKey(snapshots[i], snapshots[j]) => i = j
        /\ \A i \in DOMAIN snapshots :
               /\ KeyOf(snapshots[i]) \in DOMAIN last_ok
               /\ snapshots[i] = last_ok[KeyOf(snapshots[i])]
        /\ \A k \in DOMAIN last_ok : \E i \in DOMAIN snapshots : KeyOf(snapshots[i]) = k

\* C16 witness: both users have stored on both days, the last call failed
\* and the store holds the four snapshots, one of them with a liability.
C16_Witness ==
    /\ pc = "snap"
    /\ Len(snapshots) = 4
    /\ snap_result = "failed"
    /\ \E i \in DOMAIN snapshots : snapshots[i].liabilities_amount # Zero

\* A malformed row: a quantity or a price that is filled in and is not a
\* number, or a date that is filled in and cannot be parsed.
Malformed(row) ==
    \/ row.qty \notin FloatTexts \cup {"None"}
    \/ row.price \notin FloatTexts \cup {"None"}
    \/ row.date \notin DateTexts \cup {"None"}

\* C18: a malformed ledger row is rejected with a failure at ingestion; it
\* is never coerced to a default value and stored, nor handed to the
\* Holdings Builder.
C18_MalformedRowsRejected ==
    (pc \in {"synced", "fetched"} /\ Malformed(raw_row)) =>
        /\ sync_result = "failed"
        /\ db = SeedRows
        /\ pc = "fetched" => transactions = CleanDf(SeedRows)

\* The second run has ended with the prices and the rate of the first.
SecondRunSameInputs ==
    /\ pc = "B"
    /\ run = "second"
    /\ prices = first_run.prices
    /\ current_ex_rate = first_run.current_ex_rate

RECURSIVE EntryAfter(_, _)
EntryAfter(t, k) ==
    IF k = 0 THEN NewEntry
    ELSE LET e == EntryAfter(t, k - 1)
             r == temp_df[k]
         IN  IF r.ticker # t THEN e
             ELSE IF IsBuy(r) THEN BuyEntry(e, r) ELSE SellEntry(e, r)

\* The two sequences hold the same rows, each as often.
SameRows(a, b) ==
    /\ Len(a) = Len(b)
    /\ \A x \in { a[i] : i \in DOMAIN a } :
           Cardinality({ i \in DOMAIN a : a[i] = x }) =
           Cardinality({ i \in DOMAIN b : b[i] = x })

\* C21: the annotated ledger is the input ledger sorted by date with one
\* native P&L value per row: the i-th value is the P&L computed when the
\* i-th sorted row was processed, 0 for every buy, so there are as many
\* annotations as ledger rows.
C21_AnnotatedLedger ==
    Returned =>
        LET rows == detailed_tx_global.rows
        IN  /\ Len(rows) = Len(transactions)
            /\ PnlColumn \in detailed_tx_global.columns
            /\ SameRows([i \in DOMAIN rows |-> rows[i].row], transactions)
            /\ AscendingByDate([i \in DOMAIN rows |-> rows[i].row])
            /\ \A i \in DOMAIN rows :
                   rows[i].pnl =
                      IF IsBuy(rows[i].row) THEN Zero
                      ELSE RMul(RSub(rows[i].row.price,
                                     EntryAfter(rows[i].row.ticker, i - 1).cost_basis),
                                rows[i].row.qty)

\* C21 witness: a returned ledger of three rows that was not in date order,
\* with a buy annotated 0 and a sell annotated with a P&L other than 0.
C21_Witness ==
    /\ Returned
    /\ Len(detailed_tx_global.rows) = 3
    /\ temp_df # transactions
    /\ \E i \in DOMAIN detailed_tx_global.rows :
          IsBuy(detailed_tx_global.rows[i].row)
    /\ \E i \in DOMAIN detailed_tx_global.rows :
          /\ ~IsBuy(detailed_tx_global.rows[i].row)
          /\ detailed_tx_global.rows[i].pnl # Zero

\* The rows processed so far.
Processed == IF pc = "loop" THEN idx - 1 ELSE Len(temp_df)

\* Sum of qty * price over the rows of ticker t and the given types among
\* the first k rows of the sorted copy.
ValueSum(t, k, types) ==
    LET rows == SelectSeq(SubSeq(temp_df, 1, k),
                          LAMBDA r : r.ticker = t /\ r.type \in types)
    IN  RSum([i \in 1..Len(rows) |-> RMul(rows[i].qty, rows[i].price)])

\* Sum of the per-row native P&L of ticker t over the first k rows.
RECURSIVE PnlSum(_, _)
PnlSum(t, k) ==
    IF k = 0 THEN Zero
    ELSE RAdd(PnlSum(t, k - 1),
              IF temp_df[k].ticker = t THEN row_pnls_orig[k] ELSE Zero)

\* No oversell: at no buy of the ledger is the ticker's running quantity at
\* or below zero.
NoOversell ==
    \A k \in DOMAIN temp_df :
        IsBuy(temp_df[k]) => RGt(RunningQty(temp_df[k].ticker, k), Zero)

\* C22: cost-basis accounting identity: in a ledger without oversell, after
\* every processed row and for every ticker, quantity * average cost =
\* (sum of q*p of its buys so far) - (sum of q*p of its sells so far)
\* + (sum of its per-row native P&L so far).
C22_CostBasisIdentity ==
    ((pc = "loop" \/ (Returned /\ transactions # <<>>)) /\ NoOversell) =>
        \A t \in DOMAIN tracker :
            RMul(tracker[t].qty, tracker[t].cost_basis) =
                RAdd(RSub(ValueSum(t, Processed, {"BUY"}),
                          ValueSum(t, Processed, ActionTypes \ {"BUY"})),
                     PnlSum(t, Processed))

\* C22 witness: a ticker bought twice at different prices and sold with a
\* P&L other than 0 in between is still held after the last row.
C22_Witness ==
    /\ pc = "loop"
    /\ idx = 4
    /\ NoOversell
    /\ \E t \in DOMAIN tracker :
          /\ RGt(tracker[t].qty, Zero)
          /\ PnlSum(t, 3) # Zero
          /\ ValueSum(t, 3, ActionTypes \ {"BUY"}) # Zero
          /\ tracker[t].cost_basis # temp_df[3].price

\* The unit prices of the buys of ticker t among the first k rows.
BuyPrices(t, k) ==
    { temp_df[i].price : i \in { j \in 1..k : temp_df[j].ticker = t /\ IsBuy(temp_df[j]) } }

RGe(a, b) == ~RGt(b, a)

\* C23: with non-negative unit prices, after every processed row the
\* average cost of every ticker is non-negative and, once the ticker has a
\* buy, lies between the lowest and the highest unit price of its buys
\* processed so far.
C23_AverageCostWithinBuyPrices ==
    (pc = "loop" \/ (Returned /\ transactions # <<>>)) =>
        \A t \in DOMAIN tracker :
            /\ RGe(tracker[t].cost_basis, Zero)
            /\ \A p \in BuyPrices(t, Processed) :
                  (\A o \in BuyPrices(t, Processed) : RGe(o, p))
                      => RGe(tracker[t].cost_basis, p)
            /\ \A p \in BuyPrices(t, Processed) :
                  (\A o \in BuyPrices(t, Processed) : RGe(p, o))
                      => RGe(p, tracker[t].cost_basis)

\* The loop is at a buy of a positive quantity of a ticker that has been
\* traded before and whose running quantity is exactly 0.
AtBuyAfterLiquidation ==
    /\ AtBuy
    /\ temp_df[idx].ticker \in DOMAIN tracker
    /\ tracker[temp_df[idx].ticker].qty = Zero
    /\ RGt(temp_df[idx].qty, Zero)

C25_DownloadedSymbolIsLookedUp ==
    (pc = "md_ret" /\ md_download.state = "returned") =>
        \A t \in TList(md_tickers) :
            /\ QuerySymbol(t) = LookupSymbol(t)
            /\ md_download.columns[QuerySymbol(t)] = "data" => t \in DOMAIN prices

\* C26: every row whose action is not exactly buy is processed as a sell:
\* it lowers the ticker's quantity by its quantity, gets the per-row P&L
\* (price - average cost) * quantity, and that P&L times the FX factor is
\* added to realized_pnl_twd; no row is skipped or rejected for its action.
C26_NonBuyIsSell ==
    [][(pc = "loop" /\ idx <= Len(temp_df) /\ temp_df[idx].type # "BUY") =>
         LET row == temp_df[idx]
             cur == Entry(tracker, row.ticker)
             pnl == RMul(RSub(row.price, cur.cost_basis), row.qty)
         IN  /\ tracker'[row.ticker].qty = RSub(cur.qty, row.qty)
             /\ tracker'[row.ticker].cost_basis = cur.cost_basis
             /\ row_pnls_orig' = Append(row_pnls_orig, pnl)
             /\ realized_pnl_twd' =
                    RAdd(realized_pnl_twd,
                         RMul(pnl, IF row.cat = "TW" THEN One ELSE current_ex_rate))
             /\ idx' = idx + 1]_vars

\* C26 witness: a row whose action is neither buy nor sell has just been
\* processed against a held position, with a P&L other than 0.
C26_Witness ==
    /\ pc = "loop"
    /\ idx > 2
    /\ LastRow.type = "OTHER"
    /\ row_pnls_orig[idx - 1] # Zero
    /\ realized_pnl_twd # Zero
    /\ EntryAfter(LastRow.ticker, idx - 2).qty = One
    /\ tracker[LastRow.ticker].qty = Zero
\* The row of the store for a user and a day.
RowsOfKey(table, u, day) ==
    { i \in DOMAIN table : table[i].user_id = u /\ table[i].snapshot_date = day }

\* The call of save_daily_snapshot returns to the script.
SnapshotCallReturns == pc = "snapshot" /\ pc' = "C"

=========================================================================
